---- MODULE Spec2Model ----
(***************************************************************************)
(* Save-file registry and restore orchestration of the snapshot GUI        *)
(* (snapshot/gui/restore.py).  The restore widget (do_restore,             *)
(* restore_done, the selection handler) is modelled from the source; the   *)
(* orchestrator behind snapshot.restore_pvs and the live-value layer are   *)
(* not part of the source tree and are modelled from section 4.5 / 6 of    *)
(* the specification.                                                      *)
(***************************************************************************)
EXTENDS Integers, Sequences, FiniteSets, TLC

VARIABLES
    \* ---- SnapshotRestoreWidget / SnapshotRestoreFileSelector (GUI thread)
    selected_files,      \* file_selector.selected_files
    restore_button,      \* "Restore Filtered" enabled
    restore_all_button,  \* "Restore All" enabled
    filtered_pvs,        \* SnapshotRestoreWidget.filtered_pvs
    force,               \* common_settings["force"]
    sts_info,            \* text shown by sts_info.set_status
    error,               \* restore_done's error flag of the last outcome
    last_status,         \* what the last do_restore call ended with
    dialog,              \* the "restore anyway?" box opened by do_restore
    queue,               \* restored_callback emissions not yet handled
    \* ---- restore orchestrator and live-value layer
    busy,                \* OrchestratorState.busy
    resolved,            \* item set of the batch in flight
    pending,             \* dispatched items that have not reported
    disc,                \* items that were disconnected at dispatch
    per_item,            \* <<item, status>> in order of arrival
    cur_forced,          \* force flag of the batch in flight
    connected,           \* items the live layer reports connected
    \* ---- save-file registry
    file_list,           \* file_selector.file_list
    tree,                \* top-level items of the QTreeWidget file_selector
    existing_labels,     \* common_settings["existing_labels"]
    file_filter,         \* filter_input.file_filter
    updated_files,       \* what the last start_file_list_update returned
    \* ---- the save directory
    disk,                \* the files of save_dir
    listing,             \* the order in which glob lists the directory
    label_order,         \* the order in which a set of labels is iterated
    clock,               \* the next modification time
    quiet,               \* the last operation was a refresh: nothing has
                         \* touched the directory or the table since
    \* ---- SnapshotKeywordSelectorWidget (utils.py)
    defaults_only,       \* only default labels can be selected
    selectedKeywords,    \* the selected keywords, in the order of selection
    keywordWidgets,      \* keyword -> the SnapshotKeywordWidget made for it
    layout,              \* the keyword widgets that are in the layout
    currentIndex,        \* QComboBox.currentIndex()
    item0,               \* QComboBox.itemText(0)
    forced_keywords,     \* selected keywords that were added with force=True
    \* ---- SnapshotSettingsDialog (utils.py)
    curr_macros,         \* the macros in force
    curr_save_dir,       \* the save directory in force
    curr_forced,         \* the force mode in force
    macro_input,         \* text of the macro line edit
    save_dir_input,      \* text of the directory input
    force_input,         \* the force check box is checked
    ok_button,           \* Ok enabled
    apply_button,        \* Apply enabled
    new_config,          \* what the last handler emitted as new_config
    warning              \* the warning box the last handler has shown

restoreGui == <<selected_files, restore_button, restore_all_button,
                filtered_pvs, force, sts_info, error, last_status,
                dialog>>
orch == <<busy, resolved, pending, disc, per_item, cur_forced>>
directory == <<disk, listing, label_order, clock>>
regRest == <<existing_labels, file_filter, updated_files, directory, quiet>>
registry == <<file_list, tree, regRest>>
utilsGui == <<defaults_only, selectedKeywords, keywordWidgets, layout,
              currentIndex, item0, forced_keywords,
              curr_macros, curr_save_dir, curr_forced, macro_input,
              save_dir_input, force_input, ok_button, apply_button,
              new_config, warning>>
vars == <<restoreGui, queue, orch, connected, registry, utilsGui>>

-----------------------------------------------------------------------------
\* Names

None == "None"

\* pvs_list=None of do_restore
NoList == {None}

\* no message box is open
NoDialog == [open |-> FALSE, pvs |-> {}, names |-> {}]

\* item names as stored in a capture file
RawPvs == {"$(S):a", "X:b"}

\* a QTreeWidgetItem [time, file, comment, labels] of file_selector.  old:
\* the item was made by update_file_list_selector, which shows the comment
\* behind "X_" and sets no data(0, 0x100); otherwise the item was made by
\* start_file_list_update_new and carries its texts as meta data too.
\* ref: the item is the "file_selector" of an entry of file_list
Item(fn, time, comment, labels, old) ==
    [fn |-> fn, time |-> time, comment |-> comment, labels |-> labels,
     old |-> old, ref |-> old, hidden |-> FALSE, selected |-> FALSE]

\* item.text(1) of the selected items
SelectedNames(items) ==
    LET sel == SelectSeq(items, LAMBDA it : it.selected)
    IN  [i \in 1..Len(sel) |-> sel[i].fn]

\* PvStatus of ca_core
PvStatus == {"ok", "access_err", "type_err"}

\* SnapshotPv.macros_substitution(pvname, macros) with macros = {S: X}
macros_substitution(pvname) ==
    IF pvname = "$(S):a" THEN "X:a" ELSE pvname

\* snapshot.pvs: the items of the request file
snapshot_pvs == {"X:a", "X:b"}

\* the item lists the compare widget hands over
FilteredLists == {{}, {"X:a"}, {"X:c"}, {"X:a", "X:b"}, {"X:a", "X:c"}}

-----------------------------------------------------------------------------
\* Restore orchestrator and live-value layer (specification 4.5, 6)

\* Completed: the in-flight bookkeeping of the batch is dropped
Completed ==
    /\ busy' = FALSE
    /\ resolved' = {}
    /\ pending' = {}
    /\ disc' = {}
    /\ per_item' = <<>>
    /\ cur_forced' = FALSE

\* variant of StartStatus without the busy check
StartStatus_NoBusyCheck(pvs, f) ==
    IF pvs = {} THEN "no_data"
    ELSE IF ~f /\ (pvs \ connected) # {} THEN "no_conn"
    ELSE "ok"

\* variant of StartStatus that accepts an empty item set
StartStatus_NoDataCheck(pvs, f) ==
    IF busy THEN "busy"
    ELSE IF ~f /\ (pvs \ connected) # {} THEN "no_conn"
    ELSE "ok"

\* start(request): the ActionStatus a start returns in the current state
StartStatus(pvs, f) ==
    IF busy THEN "busy"
    ELSE IF pvs = {} THEN "no_data"
    ELSE IF ~f /\ (pvs \ connected) # {} THEN "no_conn"
    ELSE "ok"

\* the item names a no_conn rejection lists
DisconnectedNames(pvs) == pvs \ connected

\* snapshot.restore_pvs(pvs, callback, force): an accepted start goes InFlight
\* and dispatches one write per item; a rejected one changes nothing
restore_pvs(pvs, f) ==
    IF StartStatus(pvs, f) = "ok"
    THEN /\ busy' = TRUE
         /\ resolved' = pvs
         /\ pending' = pvs
         /\ disc' = pvs \ connected
         /\ per_item' = <<>>
         /\ cur_forced' = f
    ELSE UNCHANGED orch

\* the statuses the live layer can report for a dispatched item
WriteResults(p) ==
    IF p \in disc THEN {"access_err"} ELSE PvStatus

\* the RestoreOutcome built when the last item has reported
Outcome(p, s) == Append(per_item, <<p, s>>)

-----------------------------------------------------------------------------
\* SnapshotRestoreWidget

SetButtons(b) ==
    /\ restore_all_button' = b
    /\ restore_button' = b

\* variant of restore_done_callback that reports only the failed items
restore_done_callback_FailedOnly(status, forced) ==
    queue' = Append(queue,
                    [status |-> SelectSeq(status, LAMBDA e : e[2] # "ok"),
                     forced |-> forced])

\* variant of restore_done_callback that raises the signal twice
restore_done_callback_Twice(status, forced) ==
    queue' = queue \o << [status |-> status, forced |-> forced],
                         [status |-> status, forced |-> forced] >>

\* restore_done_callback: raise the outcome as a signal for the GUI thread
restore_done_callback(status, forced) ==
    queue' = Append(queue, [status |-> status, forced |-> forced])

\* one item of the batch in flight reports; the last report completes the
\* batch: busy is reset and the aggregated outcome goes to the callback
ItemReports(p, s) ==
    /\ busy
    /\ p \in pending
    /\ s \in WriteResults(p)
    /\ IF pending = {p}
       THEN /\ Completed
            /\ restore_done_callback(Outcome(p, s), cur_forced)
       ELSE /\ pending' = pending \ {p}
            /\ per_item' = Append(per_item, <<p, s>>)
            /\ UNCHANGED <<busy, resolved, disc, cur_forced, queue>>
    /\ UNCHANGED <<connected, restoreGui, registry, utilsGui>>

\* the items do_restore hands to restore_pvs
pvs_to_restore(file_data, pvs_list) ==
    IF pvs_list = NoList
    THEN file_data.pvs_list
    ELSE {p \in file_data.pvs_list : macros_substitution(p) \in pvs_list}

\* the error flag restore_done computes, examining the items in order
RECURSIVE restore_done_error(_, _, _)
restore_done_error(status, forced, err) ==
    IF status = <<>>
    THEN err
    ELSE LET sts == Head(status)[2]
         IN  restore_done_error(Tail(status), forced,
                 IF sts = "access_err" THEN ~forced
                 ELSE IF sts = "type_err" THEN TRUE
                 ELSE err)

\* status_txt of restore_done
restore_done_txt(err) ==
    IF err THEN "Restore error" ELSE "Restore done"

\* variant of restore_done that leaves the buttons alone after an error
restore_done_KeepOnError ==
    /\ queue # <<>>
    /\ error' = restore_done_error(Head(queue).status, Head(queue).forced,
                                   FALSE)
    /\ sts_info' = restore_done_txt(error')
    /\ IF error' THEN UNCHANGED <<restore_all_button, restore_button>>
       ELSE SetButtons(TRUE)
    /\ queue' = Tail(queue)
    /\ UNCHANGED <<selected_files, filtered_pvs, force, last_status, dialog,
                   orch, connected, registry, utilsGui>>

\* restore_done(status, forced), the slot of restored_callback
restore_done ==
    /\ queue # <<>>
    /\ error' = restore_done_error(Head(queue).status, Head(queue).forced,
                                   FALSE)
    /\ sts_info' = restore_done_txt(error')
    /\ SetButtons(TRUE)
    /\ queue' = Tail(queue)
    /\ UNCHANGED <<selected_files, filtered_pvs, force, last_status, dialog,
                   orch, connected, registry, utilsGui>>

TheSelected == selected_files[1]

\* do_restore(pvs_list).  processEvents() in it delivers a restored_callback
\* that is waiting, so restore_done runs between the disabling of the
\* buttons and the call of restore_pvs.
do_restore(pvs_list) ==
    /\ ~dialog.open
    /\ IF Len(selected_files) = 1
       THEN IF TheSelected \in DOMAIN file_list
            THEN LET pvs == pvs_to_restore(file_list[TheSelected], pvs_list)
                     status == StartStatus(pvs, force)
                     delivered == queue # <<>>
                 IN  /\ restore_pvs(pvs, force)
                     /\ last_status' = status
                     /\ queue' = <<>>
                     /\ error' = IF delivered
                                 THEN restore_done_error(Head(queue).status,
                                          Head(queue).forced, FALSE)
                                 ELSE error
                     /\ CASE status = "no_conn" ->
                                /\ SetButtons(delivered)
                                /\ sts_info' = "Restoring ..."
                                /\ dialog' = [open |-> TRUE, pvs |-> pvs,
                                              names |-> DisconnectedNames(pvs)]
                          [] status = "no_data" ->
                                /\ SetButtons(TRUE)
                                /\ sts_info' = "Restore rejected"
                                /\ dialog' = dialog
                          [] status = "busy" ->
                                /\ SetButtons(TRUE)
                                /\ sts_info' = "Restoring ..."
                                /\ dialog' = dialog
                          [] OTHER ->
                                /\ SetButtons(delivered)
                                /\ sts_info' = "Restoring ..."
                                /\ dialog' = dialog
            ELSE /\ SetButtons(TRUE)
                 /\ last_status' = "no_file"
                 /\ UNCHANGED <<orch, sts_info, error, dialog, queue>>
       ELSE /\ SetButtons(TRUE)
            /\ last_status' = "no_sel"
            /\ UNCHANGED <<orch, sts_info, error, dialog, queue>>
    /\ UNCHANGED <<selected_files, filtered_pvs, force, connected, registry, utilsGui>>

\* variant of do_restore_reply that retries with the configured force mode
do_restore_reply_Unforced(reply) ==
    /\ dialog.open
    /\ IF reply # "No"
       THEN /\ restore_pvs(dialog.pvs, force)
            /\ last_status' = StartStatus(dialog.pvs, force)
            /\ UNCHANGED <<restore_all_button, restore_button, sts_info>>
       ELSE /\ SetButtons(TRUE)
            /\ sts_info' = ""
            /\ UNCHANGED <<orch, last_status>>
    /\ dialog' = NoDialog
    /\ UNCHANGED <<selected_files, filtered_pvs, force, error, queue,
                   connected, registry, utilsGui>>

\* variant of do_restore_reply that forces the restore whatever the reply
do_restore_reply_AnyReply(reply) ==
    /\ dialog.open
    /\ restore_pvs(dialog.pvs, TRUE)
    /\ last_status' = StartStatus(dialog.pvs, TRUE)
    /\ UNCHANGED <<restore_all_button, restore_button, sts_info>>
    /\ dialog' = NoDialog
    /\ UNCHANGED <<selected_files, filtered_pvs, force, error, queue,
                   connected, registry, utilsGui>>

\* variant of do_restore_reply that leaves the buttons disabled when the
\* user declines
do_restore_reply_KeepDisabled(reply) ==
    /\ dialog.open
    /\ IF reply # "No"
       THEN /\ restore_pvs(dialog.pvs, TRUE)
            /\ last_status' = StartStatus(dialog.pvs, TRUE)
            /\ UNCHANGED <<restore_all_button, restore_button, sts_info>>
       ELSE /\ sts_info' = ""
            /\ UNCHANGED <<restore_all_button, restore_button, orch,
                           last_status>>
    /\ dialog' = NoDialog
    /\ UNCHANGED <<selected_files, filtered_pvs, force, error, queue,
                   connected, registry, utilsGui>>

\* the user answers the "restore anyway?" box of do_restore
do_restore_reply(reply) ==
    /\ dialog.open
    /\ IF reply # "No"
       THEN /\ restore_pvs(dialog.pvs, TRUE)
            /\ last_status' = StartStatus(dialog.pvs, TRUE)
            /\ UNCHANGED <<restore_all_button, restore_button, sts_info>>
       ELSE /\ SetButtons(TRUE)
            /\ sts_info' = ""
            /\ UNCHANGED <<orch, last_status>>
    /\ dialog' = NoDialog
    /\ UNCHANGED <<selected_files, filtered_pvs, force, error, queue,
                   connected, registry, utilsGui>>

start_restore_all ==
    /\ restore_all_button
    /\ do_restore(NoList)

\* start_restore_filtered with a request file that defines the items pvs
start_restore_filtered_on(pvs) ==
    /\ restore_button
    /\ ~dialog.open
    /\ IF Cardinality(filtered_pvs) = Cardinality(pvs)
       THEN do_restore(NoList)
       ELSE IF filtered_pvs # {}
            THEN do_restore(filtered_pvs)
            ELSE UNCHANGED vars

start_restore_filtered == start_restore_filtered_on(snapshot_pvs)

\* SnapshotGui._handle_restore_request: the compare widget asks for a restore
handle_restore_request(pvs_list) ==
    do_restore(pvs_list)

\* SnapshotRestoreFileSelector.evt_sel_changed
evt_sel_changed(sel) ==
    /\ ~dialog.open
    /\ sel \subseteq 1..Len(tree)
    /\ \A i \in sel : tree[i].hidden => tree[i].selected
    /\ tree' = [i \in 1..Len(tree) |->
                    [tree[i] EXCEPT !.selected = (i \in sel)]]
    /\ selected_files' = SelectedNames(tree')
    /\ SetButtons(Cardinality(sel) = 1)
    /\ UNCHANGED <<filtered_pvs, force, sts_info, error, last_status, dialog,
                   queue, orch, connected, file_list, regRest, utilsGui>>

\* SnapshotGui.handle_pvs_filtered
handle_pvs_filtered(pvs) ==
    /\ ~dialog.open
    /\ filtered_pvs' = pvs
    /\ UNCHANGED <<selected_files, restore_button, restore_all_button, force,
                   sts_info, error, last_status, dialog, queue, orch,
                   connected, registry, utilsGui>>

\* SnapshotGui.handle_new_config, "force" entry
handle_new_config_force(value) ==
    /\ ~dialog.open
    /\ force' = value
    /\ UNCHANGED <<selected_files, restore_button, restore_all_button,
                   filtered_pvs, sts_info, error, last_status, dialog, queue,
                   orch, connected, registry, utilsGui>>

\* the live layer gains or loses the connection of one item
ConnectionChanges(p) ==
    /\ connected' = IF p \in connected THEN connected \ {p}
                    ELSE connected \cup {p}
    /\ UNCHANGED <<restoreGui, queue, orch, registry, utilsGui>>

-----------------------------------------------------------------------------
\* The save directory and the request file

\* os.path.basename(common_settings["req_file_path"])
req_file_name == "r.req"

\* the labels that capture headers carry
Labels == {"shift1", "shift2"}

\* the files that come and go in save_dir
RegFiles == {"r_1.snap", "rb.snap", "x.snap"}

\* the number of captures of r.req that are saved one after the other
MaxFiles == 12

\* their names: r_1.snap, r_2.snap, ...
ManyNames == [i \in 1..MaxFiles |-> "r_" \o ToString(i) \o ".snap"]
ManyFiles == {ManyNames[i] : i \in 1..MaxFiles}

\* glob(save_dir/<request base>*.snap) of get_save_files matches the name
GlobReq(f) == f \in {"r_1.snap", "rb.snap"} \cup ManyFiles

\* file_name.startswith(<request base> + "_")
StartsWithReq(f) == f \in {"r_1.snap"} \cup ManyFiles

\* glob(save_dir/<save_file_prefix>*.snap) of gen_index_file, with the
\* save_file_prefix "" of the document, matches the name
GlobIdx(f) == f \in {"r_1.snap", "rb.snap", "x.snap"} \cup ManyFiles

\* the headers written into capture files
Headers ==
    { [labels |-> {}, comment |-> "", req_file_name |-> "r.req"],
      [labels |-> {"shift1"}, comment |-> "beam", req_file_name |-> "r.req"],
      [labels |-> {"shift1", "shift2"}, comment |-> "",
       req_file_name |-> "other.req"] }

\* a capture file on disk
FileOnDisk(h, t) ==
    [meta_data |-> h, pvs_list |-> RawPvs, modif_time |-> t, err |-> {}]

\* what is wrong with a capture file: its first line is no valid header, or
\* a line of its payload cannot be parsed
CorruptKinds == {"header", "payload"}

\* a capture file on disk that is corrupt in one way
CorruptFile(kind, t) ==
    [meta_data |-> [labels |-> {}, comment |-> "", req_file_name |-> "r.req"],
     pvs_list |-> RawPvs, modif_time |-> t, err |-> {kind}]

\* the meta data of a file whose header could not be decoded: no
\* req_file_name, and the comment and labels get_save_files fills in
NoHeader == [labels |-> {}, comment |-> "", req_file_name |-> None]

\* the directory with one file written or removed
DiskWith(d, f, c) == [g \in DOMAIN d \cup {f} |-> IF g = f THEN c ELSE d[g]]
DiskWithout(d, f) == [g \in DOMAIN d \ {f} |-> d[g]]

\* snapshot.parse_from_save_file: the items, the header and the errors of
\* the file
parse_from_save_file(d, f) ==
    [pvs_list |-> d[f].pvs_list,
     meta_data |-> IF "header" \in d[f].err THEN NoHeader ELSE d[f].meta_data,
     err |-> d[f].err]

\* the names of a sequence
Range(seq) == {seq[i] : i \in 1..Len(seq)}

\* the first n elements
Take(seq, n) == SubSeq(seq, 1, IF Len(seq) < n THEN Len(seq) ELSE n)

-----------------------------------------------------------------------------
\* SnapshotRestoreFileSelector: the refresh

\* "if len(parsed_save_files)>10: break" of get_save_files
ParseCap == 10

\* "if n>10: break" of start_file_list_update_new
IndexCap == 10

\* variant of get_save_files that parses every file of the request file,
\* whatever its modification time
get_save_files_All(d, current_files) ==
    Take(SelectSeq(listing, LAMBDA f :
            /\ f \in DOMAIN d
            /\ GlobReq(f)
            /\ \/ parse_from_save_file(d, f).meta_data.req_file_name
                      = req_file_name
               \/ StartsWithReq(f)),
         ParseCap + 1)

\* get_save_files(save_dir, current_files) on the directory d: the names of
\* the parsed files in the order of the listing; each is new or has another
\* modification time than the table holds, and belongs to the request file
get_save_files(d, current_files) ==
    Take(SelectSeq(listing, LAMBDA f :
            /\ f \in DOMAIN d
            /\ GlobReq(f)
            /\ \/ f \notin DOMAIN current_files
               \/ current_files[f].modif_time # d[f].modif_time
            /\ \/ parse_from_save_file(d, f).meta_data.req_file_name
                      = req_file_name
               \/ StartsWithReq(f)),
         ParseCap + 1)

\* the entry get_save_files makes for a parsed file
parsed_save_file(d, f) ==
    [pvs_list |-> parse_from_save_file(d, f).pvs_list,
     meta_data |-> parse_from_save_file(d, f).meta_data,
     modif_time |-> d[f].modif_time]

\* existing_labels as the number of times each label is listed
NoLabels == [l \in Labels |-> 0]
Listed(el) == {l \in Labels : el[l] > 0}
AddLabels(el, ls) == [l \in Labels |-> IF l \in ls THEN el[l] + 1 ELSE el[l]]

\* existing_labels.remove(label) for each label of the sequence ls; raised:
\* the label is not listed (ValueError), which ends the loop
RECURSIVE RemoveLabels(_, _)
RemoveLabels(el, ls) ==
    IF ls = <<>> THEN [el |-> el, raised |-> FALSE]
    ELSE IF el[Head(ls)] = 0 THEN [el |-> el, raised |-> TRUE]
    ELSE RemoveLabels([el EXCEPT ![Head(ls)] = @ - 1], Tail(ls))

\* the table with one entry set
TableWith(fl, f, e) == [g \in DOMAIN fl \cup {f} |-> IF g = f THEN e ELSE fl[g]]
TableWithout(fl, f) == [g \in DOMAIN fl \ {f} |-> fl[g]]

\* variant of update_one that removes the labels a modified file has lost
\* without looking whether another file carries them
update_one_NoInUse(st, dir, f) ==
    LET d == parsed_save_file(dir, f)
        labels == d.meta_data.labels
    IN  IF st.raised THEN st
        ELSE IF f \notin DOMAIN st.fl
        THEN [fl |-> TableWith(st.fl, f, d),
              tr |-> Append(st.tr, Item(f, d.modif_time, d.meta_data.comment,
                                        labels, TRUE)),
              el |-> AddLabels(st.el, labels \ Listed(st.el)),
              raised |-> FALSE]
        ELSE LET old_labels == st.fl[f].meta_data.labels
                 labels_to_add == labels \ old_labels
                 labels_to_remove == old_labels \ labels
                 fl1 == TableWith(st.fl, f,
                            [st.fl[f] EXCEPT !.meta_data = d.meta_data,
                                             !.pvs_list = d.pvs_list])
                 in_use == {}
                 rem == RemoveLabels(
                            AddLabels(st.el, labels_to_add),
                            SelectSeq(label_order, LAMBDA l :
                                l \in labels_to_remove \ in_use))
             IN  [fl |-> fl1,
                  tr |-> IF rem.raised THEN st.tr
                         ELSE [i \in 1..Len(st.tr) |->
                                IF st.tr[i].fn = f /\ st.tr[i].ref
                                THEN [st.tr[i] EXCEPT
                                        !.time = d.modif_time,
                                        !.comment = d.meta_data.comment,
                                        !.labels = labels]
                                ELSE st.tr[i]],
                  el |-> rem.el,
                  raised |-> rem.raised]

\* the body of the loop of update_file_list_selector for one parsed file.
\* st: the table, the items, existing_labels so far, and whether an
\* exception has ended the handler
update_one(st, dir, f) ==
    LET d == parsed_save_file(dir, f)
        labels == d.meta_data.labels
    IN  IF st.raised THEN st
        ELSE IF f \notin DOMAIN st.fl
        THEN [fl |-> TableWith(st.fl, f, d),
              tr |-> Append(st.tr, Item(f, d.modif_time, d.meta_data.comment,
                                        labels, TRUE)),
              el |-> AddLabels(st.el, labels \ Listed(st.el)),
              raised |-> FALSE]
        ELSE LET old_labels == st.fl[f].meta_data.labels
                 labels_to_add == labels \ old_labels
                 labels_to_remove == old_labels \ labels
                 fl1 == TableWith(st.fl, f,
                            [st.fl[f] EXCEPT !.meta_data = d.meta_data,
                                             !.pvs_list = d.pvs_list])
                 in_use == {l \in labels_to_remove :
                              \E g \in DOMAIN fl1 : l \in fl1[g].meta_data.labels}
                 rem == RemoveLabels(
                            AddLabels(st.el, labels_to_add),
                            SelectSeq(label_order, LAMBDA l :
                                l \in labels_to_remove \ in_use))
             IN  [fl |-> fl1,
                  tr |-> IF rem.raised THEN st.tr
                         ELSE [i \in 1..Len(st.tr) |->
                                IF st.tr[i].fn = f /\ st.tr[i].ref
                                THEN [st.tr[i] EXCEPT
                                        !.time = d.modif_time,
                                        !.comment = d.meta_data.comment,
                                        !.labels = labels]
                                ELSE st.tr[i]],
                  el |-> rem.el,
                  raised |-> rem.raised]

\* update_file_list_selector(modif_file_list)
RECURSIVE update_file_list_selector(_, _, _)
update_file_list_selector(st, dir, modif_file_list) ==
    IF modif_file_list = <<>> THEN st
    ELSE update_file_list_selector(update_one(st, dir, Head(modif_file_list)),
                                   dir, Tail(modif_file_list))

\* "text in ..." of Python for the texts of the model
In(sub, text) ==
    \/ sub = ""
    \/ sub = text
    \/ <<sub, text>> \in {<<"r_", "r_1.snap">>}

\* the body of the loop of filter_file_list_selector: does the item get
\* hidden, and does the test raise (an item without data(0, 0x100) has the
\* meta dict(), so that meta.get("comment") and meta.get('labels') are
\* None: "in None" and issubset(None) raise TypeError)
filter_item(flt, it) ==
    IF flt.name # "" /\ ~In(flt.name, it.fn)
    THEN [hidden |-> TRUE, raised |-> FALSE]
    ELSE IF flt.comment # "" /\ it.old
    THEN [hidden |-> it.hidden, raised |-> TRUE]
    ELSE IF flt.comment # "" /\ ~In(flt.name, it.comment)
    THEN [hidden |-> TRUE, raised |-> FALSE]
    ELSE IF flt.keys # {} /\ it.old
    THEN [hidden |-> it.hidden, raised |-> TRUE]
    ELSE [hidden |-> flt.keys # {} /\ ~(flt.keys \subseteq it.labels),
          raised |-> FALSE]

\* filter_file_list_selector() over the items from the i-th on
RECURSIVE filter_file_list_selector(_, _, _)
filter_file_list_selector(flt, tr, i) ==
    IF i > Len(tr) THEN [tr |-> tr, raised |-> FALSE]
    ELSE LET r == filter_item(flt, tr[i])
         IN  IF r.raised THEN [tr |-> tr, raised |-> TRUE]
             ELSE filter_file_list_selector(
                      flt, [tr EXCEPT ![i].hidden = r.hidden], i + 1)

\* the items sorted by column 0, Qt.DescendingOrder; items of the same time
\* keep their order
InsertItem(sorted, it) ==
    LET k == Cardinality({i \in 1..Len(sorted) : sorted[i].time >= it.time})
    IN  SubSeq(sorted, 1, k) \o <<it>> \o SubSeq(sorted, k + 1, Len(sorted))

RECURSIVE SortInto(_, _)
SortInto(sorted, items) ==
    IF items = <<>> THEN sorted
    ELSE SortInto(InsertItem(sorted, Head(items)), Tail(items))

setSortingEnabled(items) == SortInto(<<>>, items)

\* gen_index_file: the files of the directory that the index lists
gen_index_file(d) ==
    SelectSeq(listing, LAMBDA f : f \in DOMAIN d /\ GlobIdx(f))

\* json.load(fhIdx) decodes the index: gen_index_file copies the first line
\* of each file into it as it is
index_loads(d) ==
    \A f \in Range(gen_index_file(d)) : "header" \notin d[f].err

\* start_file_list_update_new(): an item for each file of the index that
\* has no item of its name yet, IndexCap + 1 of them at most.  Raises when
\* the index is empty (gen_index_file seeks before the start of its output)
\* and when the index cannot be decoded
start_file_list_update_new(d, tr) ==
    LET idx_data == gen_index_file(d)
        fnSet == {tr[i].fn : i \in 1..Len(tr)}
        new == Take(SelectSeq(idx_data, LAMBDA f : f \notin fnSet),
                    IndexCap + 1)
    IN  IF idx_data = <<>> \/ ~index_loads(d) THEN [tr |-> tr, raised |-> TRUE]
        ELSE [tr |-> setSortingEnabled(
                        tr \o [i \in 1..Len(new) |->
                                 Item(new[i], d[new[i]].modif_time,
                                      d[new[i]].meta_data.comment,
                                      d[new[i]].meta_data.labels, FALSE)]),
              raised |-> FALSE]

\* err_to_report of get_save_files: the parsed files that have errors, which
\* start_file_list_update shows in a message box under their names
err_to_report(d, save_files) ==
    {f \in Range(save_files) : parse_from_save_file(d, f).err # {}}

\* what a refresh returns to update_files
Returned(modif_file_list) == [raised |-> FALSE, files |-> Range(modif_file_list)]
Raised == [raised |-> TRUE, files |-> {}]

\* start_file_list_update() on the directory d, the table fl, the items tr
\* and existing_labels el.  An exception ends it where it is raised.  read:
\* the files it has opened, those get_save_files parsed and those whose
\* first line gen_index_file copied into the index
start_file_list_update(d, fl, tr, el) ==
    LET save_files == get_save_files(d, fl)
        upd == update_file_list_selector(
                   [fl |-> fl, tr |-> tr, el |-> el, raised |-> FALSE],
                   d, save_files)
        flt == filter_file_list_selector(file_filter, upd.tr, 1)
        new == start_file_list_update_new(d, setSortingEnabled(flt.tr))
    IN  IF upd.raised
        THEN [fl |-> upd.fl, tr |-> upd.tr, el |-> upd.el, ret |-> Raised,
              err |-> {}, read |-> Range(save_files)]
        ELSE IF flt.raised
        THEN [fl |-> upd.fl, tr |-> flt.tr, el |-> upd.el, ret |-> Raised,
              err |-> {}, read |-> Range(save_files)]
        ELSE [fl |-> upd.fl, tr |-> new.tr, el |-> upd.el,
              ret |-> IF new.raised THEN Raised ELSE Returned(save_files),
              err |-> err_to_report(d, save_files),
              read |-> Range(save_files) \cup Range(gen_index_file(d))]

-----------------------------------------------------------------------------
\* SnapshotKeywordSelectorWidget (utils.py)

\* common_settings["default_labels"]
default_labels == {"shift1"}

\* the texts that are typed into the input or handed to add_to_selected
KeywordTexts == {"", " ", "shift1", " shift1", "shift2", "night"}

\* str.strip() on the texts of the model
strip(text) ==
    IF text = " " THEN ""
    ELSE IF text = " shift1" THEN "shift1"
    ELSE text

\* the place of the first and of the last element k of a sequence
FirstOf(seq, k) ==
    CHOOSE i \in 1..Len(seq) : seq[i] = k /\ \A j \in 1..(i - 1) : seq[j] # k
LastOf(seq, k) ==
    CHOOSE i \in 1..Len(seq) :
        seq[i] = k /\ \A j \in (i + 1)..Len(seq) : seq[j] # k

\* the sequence without its i-th element
Without(seq, i) == SubSeq(seq, 1, i - 1) \o SubSeq(seq, i + 1, Len(seq))

\* the widget after construction, for defaults_only = d
keys_input_Init(d) ==
    /\ defaults_only = d
    /\ selectedKeywords = <<>>
    /\ keywordWidgets = {}
    /\ layout = <<>>
    /\ currentIndex = 0
    /\ item0 = IF d THEN "Select labels ..." ELSE ""
    /\ forced_keywords = {}

\* variant of add_to_selected that does not look whether the keyword is
\* selected already
RECURSIVE add_to_selected_Again(_, _, _)
add_to_selected_Again(st, keyword, f) ==
    IF st.idx # 0
    THEN add_to_selected_Again(
             add_to_selected_Again([st EXCEPT !.idx = 0], st.item0, FALSE),
             keyword, f)
    ELSE LET k == strip(keyword)
         IN  IF /\ k # ""
                /\ \/ ~defaults_only
                   \/ f
                   \/ defaults_only /\ k \in default_labels
             THEN [st EXCEPT
                     !.sel = Append(@, k),
                     !.wid = @ \cup {k},
                     !.lay = LET at == IF Len(st.sel) < Len(@)
                                       THEN Len(st.sel) ELSE Len(@)
                             IN  SubSeq(@, 1, at) \o <<k>>
                                     \o SubSeq(@, at + 1, Len(@)),
                     !.item0 = "",
                     !.forced = IF f THEN @ \cup {k} ELSE @ \ {k}]
             ELSE st

\* add_to_selected(keyword, force) on the widget state st (sel:
\* selectedKeywords, wid: the keys of keywordWidgets, lay: the keyword
\* widgets of the layout by their text, idx: currentIndex, item0, forced).
\* setCurrentIndex(0) raises currentIndexChanged with the text of item 0
\* when the index was another one, and add_to_selected is its slot
RECURSIVE add_to_selected(_, _, _)
add_to_selected(st, keyword, f) ==
    IF st.idx # 0
    THEN add_to_selected(
             add_to_selected([st EXCEPT !.idx = 0], st.item0, FALSE),
             keyword, f)
    ELSE LET k == strip(keyword)
         IN  IF /\ k # ""
                /\ k \notin Range(st.sel)
                /\ \/ ~defaults_only
                   \/ f
                   \/ defaults_only /\ k \in default_labels
             THEN [st EXCEPT
                     !.sel = Append(@, k),
                     !.wid = @ \cup {k},
                     !.lay = LET at == IF Len(st.sel) < Len(@)
                                       THEN Len(st.sel) ELSE Len(@)
                             IN  SubSeq(@, 1, at) \o <<k>>
                                     \o SubSeq(@, at + 1, Len(@)),
                     !.item0 = "",
                     !.forced = IF f THEN @ \cup {k} ELSE @ \ {k}]
             ELSE st

\* remove_keyword(keyword): list.remove takes the first occurrence out of
\* selectedKeywords; the widget keywordWidgets holds for the keyword, the
\* last one made for it, is taken out of the layout
remove_keyword(st, keyword) ==
    LET k == strip(keyword)
    IN  IF k \in Range(st.sel)
        THEN LET sel == Without(st.sel, FirstOf(st.sel, k))
             IN  [st EXCEPT
                     !.sel = sel,
                     !.lay = IF k \in Range(@) THEN Without(@, LastOf(@, k))
                             ELSE @,
                     !.item0 = IF sel = <<>> THEN "Select labels ..." ELSE @,
                     !.forced = IF k \in Range(sel) THEN @ ELSE @ \ {k}]
        ELSE st

\* clear_keywords(): remove_keyword for each keyword of a copy of
\* selectedKeywords
RECURSIVE clear_keywords(_, _)
clear_keywords(st, keywords_to_remove) ==
    IF keywords_to_remove = <<>> THEN st
    ELSE clear_keywords(remove_keyword(st, Head(keywords_to_remove)),
                        Tail(keywords_to_remove))

\* the widget state of the current state, with the index at idx
keys_input(idx) ==
    [sel |-> selectedKeywords, wid |-> keywordWidgets, lay |-> layout,
     idx |-> idx, item0 |-> item0, forced |-> forced_keywords]

\* a handler of the widget has left it in the state st
keys_input_Becomes(st) ==
    /\ selectedKeywords' = st.sel
    /\ keywordWidgets' = st.wid
    /\ layout' = st.lay
    /\ currentIndex' = st.idx
    /\ item0' = st.item0
    /\ forced_keywords' = st.forced
    /\ UNCHANGED <<defaults_only, curr_macros, curr_save_dir, curr_forced,
                   macro_input, save_dir_input, force_input, ok_button,
                   apply_button, new_config, warning>>
    /\ UNCHANGED <<restoreGui, queue, orch, connected, registry>>

\* the user picks a suggested label in the drop down list: the index goes
\* to its item and currentIndexChanged runs add_to_selected
currentIndexChanged(label) ==
    /\ \/ label \in default_labels
       \/ ~defaults_only /\ label \in Labels
    /\ keys_input_Becomes(add_to_selected(keys_input(1), label, FALSE))

\* input_handler: a key or the loss of focus adds the text of the input,
\* which only the editable widget has
input_handler(text) ==
    /\ ~defaults_only
    /\ keys_input_Becomes(
           add_to_selected(keys_input(currentIndex), text, FALSE))

\* SnapshotEditMetadataDialog adds a label of the file with force=True
add_label_forced(label) ==
    /\ label \in KeywordTexts
    /\ keys_input_Becomes(
           add_to_selected(keys_input(currentIndex), label, TRUE))

\* the delete button of a keyword widget, or backspace in the empty input
delete_keyword(keyword) ==
    /\ keyword \in Range(selectedKeywords)
    /\ keys_input_Becomes(remove_keyword(keys_input(currentIndex), keyword))

\* clear_keywords() as SnapshotFileFilterWidget.clear calls it
clear_keywords_called ==
    /\ selectedKeywords # <<>>
    /\ keys_input_Becomes(
           clear_keywords(keys_input(currentIndex), selectedKeywords))

-----------------------------------------------------------------------------
\* SnapshotSettingsDialog (utils.py)

\* the texts entered as macros
MacroTexts == {"", "S=X", "S=Y", "S"}

\* parse_macros(text): the dict of the macros as a set of <<macro, value>>;
\* raised: MacroError
parse_macros(text) ==
    IF text = "" THEN [raised |-> FALSE, macros |-> {}]
    ELSE IF text = "S=X" THEN [raised |-> FALSE, macros |-> {<<"S", "X">>}]
    ELSE IF text = "S=Y" THEN [raised |-> FALSE, macros |-> {<<"S", "Y">>}]
    ELSE [raised |-> TRUE, macros |-> {}]

\* parse_dict_macros_to_text(macros)
parse_dict_macros_to_text(macros) ==
    IF macros = {} THEN ""
    ELSE IF macros = {<<"S", "X">>} THEN "S=X"
    ELSE "S=Y"

\* the paths entered as save directory, and os.path.isdir
DirTexts == {"/data", "/data2", "/nodir"}
isdir(path) == path \in {"/data", "/data2"}

\* the dialog after construction, with the macros m in common_settings
SnapshotSettingsDialog_Init(m) ==
    /\ curr_macros = m
    /\ curr_save_dir = "/data"
    /\ curr_forced = FALSE
    /\ macro_input = parse_dict_macros_to_text(m)
    /\ save_dir_input = "/data"
    /\ force_input = FALSE
    /\ ok_button = FALSE
    /\ apply_button = FALSE
    /\ new_config = <<>>
    /\ warning = None

\* monitor_changes(): are Ok and Apply enabled, for the inputs and the
\* settings in force that are given
monitor_changes(macros_text, dir_text, forced, macros, dir, curr_f) ==
    LET parsed == parse_macros(macros_text)
        parsed_macros == IF parsed.raised THEN {} ELSE parsed.macros
    IN  \/ parsed_macros # macros
        \/ dir_text # dir
        \/ forced # curr_f

\* an input of the dialog is changed to the values given; its signal runs
\* monitor_changes
InputChanged(macros_text, dir_text, forced) ==
    /\ macro_input' = macros_text
    /\ save_dir_input' = dir_text
    /\ force_input' = forced
    /\ ok_button' = monitor_changes(macros_text, dir_text, forced,
                                    curr_macros, curr_save_dir, curr_forced)
    /\ apply_button' = ok_button'
    /\ new_config' = <<>>
    /\ warning' = None
    /\ UNCHANGED <<curr_macros, curr_save_dir, curr_forced>>
    /\ UNCHANGED <<defaults_only, selectedKeywords, keywordWidgets, layout,
                   currentIndex, item0, forced_keywords>>
    /\ UNCHANGED <<restoreGui, queue, orch, connected, registry>>

macro_input_textChanged(text) ==
    /\ text # macro_input
    /\ InputChanged(text, save_dir_input, force_input)

save_dir_input_path_changed(path) ==
    /\ path # save_dir_input
    /\ InputChanged(macro_input, path, force_input)

force_input_stateChanged ==
    /\ force_input \in BOOLEAN
    /\ InputChanged(macro_input, save_dir_input, ~force_input)

\* the config apply_config emits: the settings that have changed
ChangedConfig(parsed_macros, dir_ok) ==
    LET keys == {k \in {"macros", "save_dir", "force"} :
                    \/ k = "macros" /\ parsed_macros # curr_macros
                    \/ k = "save_dir" /\ dir_ok
                    \/ k = "force" /\ force_input # curr_forced}
    IN  [k \in keys |-> IF k = "macros" THEN parsed_macros
                        ELSE IF k = "save_dir" THEN save_dir_input
                        ELSE force_input]

\* variant of apply_config that emits the directory although it is no
\* directory
apply_config_AnyDir ==
    /\ apply_button
    /\ LET parsed == parse_macros(macro_input)
           parsed_macros == parsed.macros
           dir_ok == save_dir_input # curr_save_dir
       IN  IF parsed.raised
           THEN /\ warning' = "macros"
                /\ new_config' = <<>>
                /\ UNCHANGED <<curr_macros, curr_save_dir, curr_forced,
                               macro_input, save_dir_input, force_input,
                               ok_button, apply_button>>
           ELSE /\ curr_save_dir' = IF dir_ok THEN save_dir_input
                                    ELSE curr_save_dir
                /\ warning' = None
                /\ save_dir_input' = save_dir_input
                /\ curr_macros' = parsed_macros
                /\ curr_forced' = force_input
                /\ ok_button' = monitor_changes(macro_input, save_dir_input',
                                    force_input, curr_macros', curr_save_dir',
                                    curr_forced')
                /\ apply_button' = ok_button'
                /\ new_config' = <<ChangedConfig(parsed_macros, dir_ok)>>
                /\ UNCHANGED <<macro_input, force_input>>
    /\ UNCHANGED <<defaults_only, selectedKeywords, keywordWidgets, layout,
                   currentIndex, item0, forced_keywords>>
    /\ UNCHANGED <<restoreGui, queue, orch, connected, registry>>

\* apply_config(), from the Apply or the Ok button
apply_config ==
    /\ apply_button
    /\ LET parsed == parse_macros(macro_input)
           parsed_macros == parsed.macros
           dir_ok == save_dir_input # curr_save_dir /\ isdir(save_dir_input)
           dir_bad == save_dir_input # curr_save_dir /\ ~isdir(save_dir_input)
       IN  IF parsed.raised
           THEN /\ warning' = "macros"
                /\ new_config' = <<>>
                /\ UNCHANGED <<curr_macros, curr_save_dir, curr_forced,
                               macro_input, save_dir_input, force_input,
                               ok_button, apply_button>>
           ELSE /\ curr_save_dir' = IF dir_ok THEN save_dir_input
                                    ELSE curr_save_dir
                /\ warning' = IF dir_bad THEN "save_dir" ELSE None
                /\ save_dir_input' = IF dir_bad THEN curr_save_dir
                                     ELSE save_dir_input
                /\ curr_macros' = parsed_macros
                /\ curr_forced' = force_input
                /\ ok_button' = monitor_changes(macro_input, save_dir_input',
                                    force_input, curr_macros', curr_save_dir',
                                    curr_forced')
                /\ apply_button' = ok_button'
                /\ new_config' = <<ChangedConfig(parsed_macros, dir_ok)>>
                /\ UNCHANGED <<macro_input, force_input>>
    /\ UNCHANGED <<defaults_only, selectedKeywords, keywordWidgets, layout,
                   currentIndex, item0, forced_keywords>>
    /\ UNCHANGED <<restoreGui, queue, orch, connected, registry>>

\* both widgets of utils.py as they are constructed
UtilsInit ==
    /\ keys_input_Init(FALSE)
    /\ SnapshotSettingsDialog_Init({})

-----------------------------------------------------------------------------
\* The restore scenario: save_dir holds r_1.snap, rb.snap and x.snap and the
\* list has been refreshed.  r_1.snap and rb.snap were listed by
\* update_file_list_selector and are in the table, rb.snap being a capture
\* without items; x.snap was listed by start_file_list_update_new alone and
\* is not in the table

RestoreHeader == [labels |-> {}, comment |-> "", req_file_name |-> "r.req"]

\* the items stored in the captures of the restore scenario
RestorePvs(f) == IF f = "rb.snap" THEN {} ELSE RawPvs

\* the modification times of the captures of the restore scenario
RestoreTime(f) ==
    IF f = "rb.snap" THEN 0 ELSE IF f = "r_1.snap" THEN 1 ELSE 2

RestoreDisk ==
    [f \in {"r_1.snap", "rb.snap", "x.snap"} |->
        [meta_data |-> RestoreHeader, pvs_list |-> RestorePvs(f),
         modif_time |-> RestoreTime(f), err |-> {}]]

RestoreFileList ==
    [f \in {"r_1.snap", "rb.snap"} |->
        [pvs_list |-> RestorePvs(f), meta_data |-> RestoreHeader,
         modif_time |-> RestoreTime(f)]]

RestoreTree ==
    << Item("x.snap", 2, "", {}, FALSE),
       Item("r_1.snap", 1, "", {}, TRUE),
       Item("rb.snap", 0, "", {}, TRUE) >>

\* the selections the user makes in the restore scenario: none, any single
\* item, or two items at once
RestoreSelections == {{}, {1}, {2}, {3}, {1, 2}}

\* file_filter after construction
NoFilter == [keys |-> {}, comment |-> "", name |-> ""]

\* no refresh has returned yet
NoUpdate == [raised |-> FALSE, files |-> {}]

\* no file on disk, no entry in the table
NoFiles == [f \in {} |-> f]

Init ==
    /\ UtilsInit
    /\ selected_files = <<>>
    /\ restore_button = FALSE
    /\ restore_all_button = FALSE
    /\ filtered_pvs = {}
    /\ force = FALSE
    /\ sts_info = ""
    /\ error = FALSE
    /\ last_status = None
    /\ dialog = NoDialog
    /\ queue = <<>>
    /\ busy = FALSE
    /\ resolved = {}
    /\ pending = {}
    /\ disc = {}
    /\ per_item = <<>>
    /\ cur_forced = FALSE
    /\ connected \in SUBSET RawPvs
    /\ file_list = RestoreFileList
    /\ tree = RestoreTree
    /\ existing_labels = NoLabels
    /\ file_filter = NoFilter
    /\ updated_files = Returned(<<"r_1.snap", "rb.snap">>)
    /\ disk = RestoreDisk
    /\ listing = <<"r_1.snap", "rb.snap", "x.snap">>
    /\ label_order = <<"shift1", "shift2">>
    /\ clock = 3
    /\ quiet = TRUE

Next ==
    \/ start_restore_all
    \/ start_restore_filtered
    \/ \E pvs_list \in FilteredLists : handle_restore_request(pvs_list)
    \/ \E reply \in {"Yes", "No"} : do_restore_reply(reply)
    \/ \E p \in RawPvs, s \in PvStatus : ItemReports(p, s)
    \/ restore_done
    \/ \E sel \in RestoreSelections : evt_sel_changed(sel)
    \/ \E pvs \in FilteredLists : handle_pvs_filtered(pvs)
    \/ \E value \in BOOLEAN : handle_new_config_force(value)
    \/ \E p \in RawPvs : ConnectionChanges(p)

Spec == Init /\ [][Next]_vars

\* The restore scenario with a request file that defines no item
NextNoItems ==
    \/ start_restore_all
    \/ start_restore_filtered_on({})
    \/ \E pvs_list \in FilteredLists : handle_restore_request(pvs_list)
    \/ \E reply \in {"Yes", "No"} : do_restore_reply(reply)
    \/ \E p \in RawPvs, s \in PvStatus : ItemReports(p, s)
    \/ restore_done
    \/ \E sel \in RestoreSelections : evt_sel_changed(sel)
    \/ \E pvs \in FilteredLists : handle_pvs_filtered(pvs)
    \/ \E value \in BOOLEAN : handle_new_config_force(value)
    \/ \E p \in RawPvs : ConnectionChanges(p)

SpecNoItems == Init /\ [][NextNoItems]_vars

\* the restore scenario with the fairness the scheduling gives: every
\* dispatched write is answered, the Qt event loop runs the slot of a queued
\* signal, and a modal box is answered
SpecLive ==
    /\ Spec
    /\ WF_vars(\E p \in RawPvs, s \in PvStatus : ItemReports(p, s))
    /\ WF_vars(restore_done)
    /\ WF_vars(\E reply \in {"Yes", "No"} : do_restore_reply(reply))

-----------------------------------------------------------------------------
\* The registry scenario: files are written and removed in save_dir while
\* the list is refreshed, filtered, edited and deleted from

\* modification times run up to MaxClock
MaxClock == 2

\* the filters entered in the filter widget
Filters ==
    { NoFilter,
      [keys |-> {"shift1"}, comment |-> "", name |-> ""],
      [keys |-> {}, comment |-> "beam", name |-> "r_"],
      [keys |-> {}, comment |-> "beam", name |-> ""] }

\* what the user enters in the meta-data dialog
Edits ==
    { [comment |-> "", labels |-> {}],
      [comment |-> "beam", labels |-> {"shift2"}] }

\* the user selects up to MaxSelected items at once
MaxSelected == 2

\* the orders in which the directory is listed
Listings ==
    { <<"r_1.snap", "rb.snap", "x.snap">>,
      <<"x.snap", "rb.snap", "r_1.snap">> }

\* the orders in which Python iterates a set of labels
LabelOrders == { <<"shift1", "shift2">>, <<"shift2", "shift1">> }

restoreRest == <<filtered_pvs, force, sts_info, error, last_status, dialog,
                 queue, orch, connected, utilsGui>>

\* a capture file is written into save_dir
WriteFile(f, h) ==
    /\ clock <= MaxClock
    /\ disk' = DiskWith(disk, f, FileOnDisk(h, clock))
    /\ clock' = clock + 1
    /\ quiet' = FALSE
    /\ UNCHANGED <<selected_files, restore_button, restore_all_button,
                   restoreRest, file_list, tree, existing_labels,
                   file_filter, updated_files, listing, label_order>>

\* a file of save_dir is removed from outside
RemoveFile(f) ==
    /\ f \in DOMAIN disk
    /\ disk' = DiskWithout(disk, f)
    /\ quiet' = FALSE
    /\ UNCHANGED <<selected_files, restore_button, restore_all_button,
                   restoreRest, file_list, tree, existing_labels,
                   file_filter, updated_files, listing, label_order,
                   clock>>

\* SnapshotRestoreWidget.update_files
update_files ==
    LET r == start_file_list_update(disk, file_list, tree, existing_labels)
    IN  /\ file_list' = r.fl
        /\ tree' = r.tr
        /\ existing_labels' = r.el
        /\ updated_files' = r.ret
        /\ quiet' = ~r.ret.raised
        /\ UNCHANGED <<selected_files, restore_button, restore_all_button,
                       restoreRest, file_filter, directory>>

\* SnapshotRestoreWidget.clear_update_files on the directory d:
\* clear_file_selector empties the items, the selection and the table, then
\* update_files
clear_update_files_on(d) ==
    LET r == start_file_list_update(d, NoFiles, <<>>, existing_labels)
    IN  /\ selected_files' = <<>>
        /\ SetButtons(FALSE)
        /\ file_list' = r.fl
        /\ tree' = r.tr
        /\ existing_labels' = r.el
        /\ updated_files' = r.ret
        /\ quiet' = ~r.ret.raised

\* start_refresh, the Refresh button
start_refresh ==
    /\ clear_update_files_on(disk)
    /\ UNCHANGED <<restoreRest, file_filter, directory>>

\* variant of update_filter that rescans the directory as well
update_filter_Rescan(flt) ==
    LET r == start_file_list_update(disk, file_list, tree, existing_labels)
    IN  /\ file_filter' = flt
        /\ file_list' = r.fl
        /\ existing_labels' = r.el
        /\ updated_files' = r.ret
        /\ tree' = filter_file_list_selector(flt, r.tr, 1).tr
        /\ quiet' = FALSE
        /\ UNCHANGED <<selected_files, restore_button, restore_all_button,
                       restoreRest, directory>>

\* SnapshotFileFilterWidget.update_filter and its slot
\* filter_file_list_selector
update_filter(flt) ==
    /\ file_filter' = flt
    /\ tree' = filter_file_list_selector(flt, tree, 1).tr
    /\ quiet' = FALSE
    /\ UNCHANGED <<selected_files, restore_button, restore_all_button,
                   restoreRest, file_list, existing_labels, updated_files,
                   directory>>

\* the body of the loop of evt_delete_files for one selected file.  OSError
\* of os.remove is caught; KeyError of file_list.pop ends the handler
delete_one(st, f) ==
    IF st.raised \/ f \notin DOMAIN st.dk THEN st
    ELSE IF f \notin DOMAIN st.fl
    THEN [st EXCEPT !.dk = DiskWithout(st.dk, f), !.raised = TRUE]
    ELSE LET found == {i \in 1..Len(st.tr) : st.tr[i].fn = f}
             first == CHOOSE i \in found : \A j \in found : i <= j
             left == [i \in 1..(Len(st.tr) - 1) |->
                        IF i < first THEN st.tr[i] ELSE st.tr[i + 1]]
         IN  [dk |-> DiskWithout(st.dk, f),
              fl |-> TableWithout(st.fl, f),
              tr |-> [i \in 1..Len(left) |->
                        IF left[i].fn = f THEN [left[i] EXCEPT !.ref = FALSE]
                        ELSE left[i]],
              raised |-> FALSE]

RECURSIVE delete_files(_, _)
delete_files(st, files) ==
    IF files = <<>> THEN st
    ELSE delete_files(delete_one(st, Head(files)), Tail(files))

\* evt_delete_files, "Delete selected files" of the context menu, with the
\* reply to its question.  Taking a selected item out of the widget changes
\* the selection, which runs evt_sel_changed
evt_delete_files(reply) ==
    /\ selected_files # <<>>
    /\ IF reply = "Yes"
       THEN LET r == delete_files([dk |-> disk, fl |-> file_list,
                                   tr |-> tree, raised |-> FALSE],
                                  selected_files)
            IN  /\ disk' = r.dk
                /\ file_list' = r.fl
                /\ tree' = r.tr
                /\ selected_files' = SelectedNames(r.tr)
                /\ IF r.tr # tree
                   THEN SetButtons(Len(SelectedNames(r.tr)) = 1)
                   ELSE UNCHANGED <<restore_button, restore_all_button>>
                /\ quiet' = FALSE
       ELSE UNCHANGED <<disk, file_list, tree, selected_files,
                        restore_button, restore_all_button, quiet>>
    /\ UNCHANGED <<restoreRest, existing_labels, file_filter, updated_files,
                   listing, label_order, clock>>

\* snapshot.replace_metadata(file, metadata): the header of the file is
\* rewritten
replace_metadata(d, f, meta) ==
    DiskWith(d, f, [d[f] EXCEPT !.meta_data = meta, !.modif_time = clock])

\* evt_update_file_metadata, "Edit file meta-data" of the context menu, with
\* what the user enters in SnapshotEditMetadataDialog.  apply_config writes
\* into the meta data of the table entry itself
evt_update_file_metadata(ok, comment, labels) ==
    /\ Len(selected_files) = 1
    /\ selected_files[1] \in DOMAIN file_list
    /\ LET f == selected_files[1]
           meta == [file_list[f].meta_data EXCEPT !.comment = comment,
                                                  !.labels = labels]
       IN  IF ~ok
           THEN UNCHANGED <<selected_files, restore_button,
                            restore_all_button, registry>>
           ELSE IF f \in DOMAIN disk
           THEN /\ clock <= MaxClock
                /\ disk' = replace_metadata(disk, f, meta)
                /\ clock' = clock + 1
                /\ clear_update_files_on(disk')
                /\ UNCHANGED <<file_filter, listing, label_order>>
           ELSE /\ file_list' = TableWith(file_list, f,
                                    [file_list[f] EXCEPT !.meta_data = meta])
                /\ quiet' = FALSE
                /\ UNCHANGED <<selected_files, restore_button,
                               restore_all_button, tree, existing_labels,
                               file_filter, updated_files, directory>>
    /\ UNCHANGED restoreRest

InitRegistry ==
    /\ UtilsInit
    /\ selected_files = <<>>
    /\ restore_button = FALSE
    /\ restore_all_button = FALSE
    /\ filtered_pvs = {}
    /\ force = FALSE
    /\ sts_info = ""
    /\ error = FALSE
    /\ last_status = None
    /\ dialog = NoDialog
    /\ queue = <<>>
    /\ busy = FALSE
    /\ resolved = {}
    /\ pending = {}
    /\ disc = {}
    /\ per_item = <<>>
    /\ cur_forced = FALSE
    /\ connected = RawPvs
    /\ file_list = NoFiles
    /\ tree = <<>>
    /\ existing_labels = NoLabels
    /\ file_filter = NoFilter
    /\ updated_files = NoUpdate
    /\ disk = NoFiles
    /\ listing \in Listings
    /\ label_order \in LabelOrders
    /\ clock = 1
    /\ quiet = FALSE

NextRegistry ==
    \/ \E f \in RegFiles, h \in Headers : WriteFile(f, h)
    \/ \E f \in RegFiles : RemoveFile(f)
    \/ update_files
    \/ start_refresh
    \/ \E flt \in Filters : update_filter(flt)
    \/ \E sel \in SUBSET (1..Len(tree)) :
          Cardinality(sel) <= MaxSelected /\ evt_sel_changed(sel)
    \/ \E reply \in {"Yes", "No"} : evt_delete_files(reply)
    \/ \E ok \in BOOLEAN, e \in Edits :
          evt_update_file_metadata(ok, e.comment, e.labels)

SpecRegistry == InitRegistry /\ [][NextRegistry]_vars

-----------------------------------------------------------------------------
\* The corrupt-file scenario: captures are written into save_dir, one of
\* them at most corrupt, and the list is refreshed

\* a corrupt capture file is written into save_dir, which holds no other
\* corrupt file
WriteCorruptFile(f, kind) ==
    /\ clock <= MaxClock
    /\ \A g \in DOMAIN disk \ {f} : disk[g].err = {}
    /\ disk' = DiskWith(disk, f, CorruptFile(kind, clock))
    /\ clock' = clock + 1
    /\ quiet' = FALSE
    /\ UNCHANGED <<selected_files, restore_button, restore_all_button,
                   restoreRest, file_list, tree, existing_labels,
                   file_filter, updated_files, listing, label_order>>

NextFailSoft ==
    \/ \E f \in RegFiles, h \in Headers : WriteFile(f, h)
    \/ \E f \in RegFiles, kind \in CorruptKinds : WriteCorruptFile(f, kind)
    \/ \E f \in RegFiles : RemoveFile(f)
    \/ update_files

SpecFailSoft == InitRegistry /\ [][NextFailSoft]_vars

-----------------------------------------------------------------------------
\* The many-files scenario: captures of r.req are saved one after the
\* other, and the list is refreshed now and then

\* the orders in which glob lists them
ManyListings ==
    { ManyNames, [i \in 1..MaxFiles |-> ManyNames[MaxFiles + 1 - i]] }

\* the next capture is saved
SaveNextFile ==
    LET n == Cardinality(DOMAIN disk)
    IN  /\ n < MaxFiles
        /\ disk' = DiskWith(disk, ManyNames[n + 1],
                            FileOnDisk(RestoreHeader, clock))
        /\ clock' = clock + 1
        /\ quiet' = FALSE
        /\ UNCHANGED <<selected_files, restore_button, restore_all_button,
                       restoreRest, file_list, tree, existing_labels,
                       file_filter, updated_files, listing, label_order>>

InitMany ==
    /\ UtilsInit
    /\ selected_files = <<>>
    /\ restore_button = FALSE
    /\ restore_all_button = FALSE
    /\ filtered_pvs = {}
    /\ force = FALSE
    /\ sts_info = ""
    /\ error = FALSE
    /\ last_status = None
    /\ dialog = NoDialog
    /\ queue = <<>>
    /\ busy = FALSE
    /\ resolved = {}
    /\ pending = {}
    /\ disc = {}
    /\ per_item = <<>>
    /\ cur_forced = FALSE
    /\ connected = RawPvs
    /\ file_list = NoFiles
    /\ tree = <<>>
    /\ existing_labels = NoLabels
    /\ file_filter = NoFilter
    /\ updated_files = NoUpdate
    /\ disk = NoFiles
    /\ listing \in ManyListings
    /\ label_order \in LabelOrders
    /\ clock = 1
    /\ quiet = FALSE

NextMany ==
    \/ SaveNextFile
    \/ update_files

SpecMany == InitMany /\ [][NextMany]_vars

-----------------------------------------------------------------------------
\* The filter scenario: save_dir holds three captures, written before the
\* clock of the model starts, and the list has been refreshed once; the
\* user filters the list and selects in it, and the list is refreshed again

FilterDisk ==
    [f \in RegFiles |->
        IF f = "r_1.snap"
        THEN FileOnDisk([labels |-> {"shift1"}, comment |-> "beam",
                         req_file_name |-> "r.req"], -2)
        ELSE IF f = "rb.snap"
        THEN FileOnDisk([labels |-> {"shift1", "shift2"}, comment |-> "",
                         req_file_name |-> "r.req"], -1)
        ELSE FileOnDisk([labels |-> {}, comment |-> "beam",
                         req_file_name |-> "r.req"], 0)]

InitFilter ==
    /\ UtilsInit
    /\ selected_files = <<>>
    /\ restore_button = FALSE
    /\ restore_all_button = FALSE
    /\ filtered_pvs = {}
    /\ force = FALSE
    /\ sts_info = ""
    /\ error = FALSE
    /\ last_status = None
    /\ dialog = NoDialog
    /\ queue = <<>>
    /\ busy = FALSE
    /\ resolved = {}
    /\ pending = {}
    /\ disc = {}
    /\ per_item = <<>>
    /\ cur_forced = FALSE
    /\ connected = RawPvs
    /\ file_filter = NoFilter
    /\ disk = FilterDisk
    /\ listing \in Listings
    /\ label_order \in LabelOrders
    /\ clock = 1
    /\ quiet = TRUE
    /\ LET r == start_file_list_update(disk, NoFiles, <<>>, NoLabels)
       IN  /\ file_list = r.fl
           /\ tree = r.tr
           /\ existing_labels = r.el
           /\ updated_files = r.ret

NextFilter ==
    \/ \E flt \in Filters : update_filter(flt)
    \/ \E sel \in SUBSET (1..Len(tree)) :
          Cardinality(sel) <= MaxSelected /\ evt_sel_changed(sel)
    \/ update_files

SpecFilter == InitFilter /\ [][NextFilter]_vars

\* The labels scenario: the three captures of the filter scenario are
\* rewritten and removed from outside while the list is refreshed
NextLabels ==
    \/ \E f \in RegFiles, h \in Headers : WriteFile(f, h)
    \/ \E f \in RegFiles : RemoveFile(f)
    \/ update_files

SpecLabels == InitFilter /\ [][NextLabels]_vars

\* update_files would change the state: the table, the items,
\* existing_labels, or what the last refresh returned
RefreshChanges ==
    LET r == start_file_list_update(disk, file_list, tree, existing_labels)
    IN  <<r.fl, r.tr, r.el, r.ret, ~r.ret.raised>>
            # <<file_list, tree, existing_labels, updated_files, quiet>>

-----------------------------------------------------------------------------
\* The widgets of utils.py on their own: nothing is loaded in the restore
\* widget

NothingLoaded ==
    /\ selected_files = <<>>
    /\ restore_button = FALSE
    /\ restore_all_button = FALSE
    /\ filtered_pvs = {}
    /\ force = FALSE
    /\ sts_info = ""
    /\ error = FALSE
    /\ last_status = None
    /\ dialog = NoDialog
    /\ queue = <<>>
    /\ busy = FALSE
    /\ resolved = {}
    /\ pending = {}
    /\ disc = {}
    /\ per_item = <<>>
    /\ cur_forced = FALSE
    /\ connected = RawPvs
    /\ file_list = NoFiles
    /\ tree = <<>>
    /\ existing_labels = NoLabels
    /\ file_filter = NoFilter
    /\ updated_files = NoUpdate
    /\ disk = NoFiles
    /\ listing = <<"r_1.snap", "rb.snap", "x.snap">>
    /\ label_order = <<"shift1", "shift2">>
    /\ clock = 1
    /\ quiet = FALSE

\* The keyword scenario: keywords are selected and removed in a keyword
\* selector, editable or restricted to the default labels
InitKeywords ==
    /\ NothingLoaded
    /\ \E d \in BOOLEAN : keys_input_Init(d)
    /\ SnapshotSettingsDialog_Init({})

NextKeywords ==
    \/ \E label \in Labels : currentIndexChanged(label)
    \/ \E text \in KeywordTexts : input_handler(text)
    \/ \E label \in KeywordTexts : add_label_forced(label)
    \/ \E keyword \in KeywordTexts : delete_keyword(keyword)
    \/ clear_keywords_called

SpecKeywords == InitKeywords /\ [][NextKeywords]_vars

\* The settings scenario: the user edits the inputs of the settings dialog
\* and applies them
InitSettings ==
    /\ NothingLoaded
    /\ keys_input_Init(FALSE)
    /\ \E m \in {{}, {<<"S", "X">>}} : SnapshotSettingsDialog_Init(m)

NextSettings ==
    \/ \E text \in MacroTexts : macro_input_textChanged(text)
    \/ \E path \in DirTexts : save_dir_input_path_changed(path)
    \/ force_input_stateChanged
    \/ apply_config

SpecSettings == InitSettings /\ [][NextSettings]_vars

-----------------------------------------------------------------------------
\* Claims about the restore orchestration

\* a step in which do_restore ran (from either button or the compare widget)
DoRestoreStep == \E pvs_list \in FilteredLists \cup {NoList} : do_restore(pvs_list)

\* a step in which restore_pvs was called
StartStep ==
    \/ DoRestoreStep /\ last_status' \notin {"no_sel", "no_file"}
    \/ do_restore_reply("Yes")

\* a step in which the aggregated outcome goes to the callback
OutcomeStep == busy /\ ~busy'

Keys(status) == {status[i][1] : i \in 1..Len(status)}

Statuses(status) == {status[i][2] : i \in 1..Len(status)}

\* C1: while an accepted restore is in flight (its outcome has not gone to
\* the callback), every start returns busy and the batch in flight is kept
C1_AtMostOneInFlight ==
    [][busy /\ StartStep => last_status' = "busy" /\ UNCHANGED orch]_vars

\* C1 witness: a start was rejected with busy while the first is in flight
C1_Witness == busy /\ last_status = "busy" /\ per_item # <<>>

\* C4: the keys of a delivered outcome are exactly the items the accepted
\* start dispatched, each once, and those are the items do_restore resolved
C4_OutcomeComplete ==
    /\ [][OutcomeStep =>
            /\ Len(queue') = Len(queue) + 1
            /\ Keys(queue'[Len(queue')].status) = resolved
            /\ Len(queue'[Len(queue')].status) = Cardinality(resolved)]_vars
    /\ [][\A pvs_list \in FilteredLists \cup {NoList} :
            do_restore(pvs_list) /\ last_status' = "ok" =>
                resolved' = pvs_to_restore(file_list[TheSelected], pvs_list)]_vars

\* C4 witness: an outcome for both items of r_1.snap waits for the GUI thread
C4_Witness == queue # <<>> /\ Keys(queue[1].status) = RawPvs

\* C5: the outcome is raised only by the report of the last pending item,
\* once per batch, and each raised outcome is handled once by restore_done
C5_OutcomeOnce ==
    /\ [][Len(queue') > Len(queue) =>
            /\ OutcomeStep
            /\ Cardinality(pending) = 1
            /\ Len(per_item) + 1 = Cardinality(resolved)]_vars
    /\ [][OutcomeStep => queue' = Append(queue, queue'[Len(queue')])]_vars
    /\ [][Len(queue') < Len(queue) =>
            /\ queue' = Tail(queue)
            /\ error' = restore_done_error(Head(queue).status,
                                           Head(queue).forced, FALSE)]_vars

\* C5 witness: the items reported in the other order than they were stored
C5_Witness ==
    /\ queue # <<>>
    /\ Len(queue[1].status) = 2
    /\ queue[1].status[1][1] = "X:b"

\* the outcome delivered by an OutcomeStep
Delivered == queue'[Len(queue')]

\* C6 as stated: after no_conn, the forced follow-up gives access_error for
\* each disconnected item and ok for every other item
C6_ForcedOutcomeAsStated ==
    [][OutcomeStep /\ cur_forced /\ disc # {} =>
        \A i \in 1..Len(Delivered.status) :
            Delivered.status[i][2] =
                IF Delivered.status[i][1] \in disc THEN "access_err" ELSE "ok"]_vars

\* C6 amended: an unforced start with a disconnected item returns no_conn,
\* lists exactly the disconnected items and dispatches nothing; the forced
\* follow-up of the same items is accepted; its outcome gives access_error
\* for each item that was disconnected at dispatch, and any reported status
\* for the others
C6_NoConnThenForced ==
    /\ [][\A pvs_list \in FilteredLists \cup {NoList} :
            LET pvs == pvs_to_restore(file_list[TheSelected], pvs_list)
            IN  /\ do_restore(pvs_list)
                /\ last_status' \notin {"no_sel", "no_file"}
                /\ ~busy /\ ~force /\ pvs \ connected # {}
                =>  /\ last_status' = "no_conn"
                    /\ dialog'.open
                    /\ dialog'.names = pvs \ connected
                    /\ dialog'.pvs = pvs
                    /\ UNCHANGED orch]_vars
    /\ [][do_restore_reply("Yes") =>
            /\ last_status' = "ok"
            /\ busy' /\ cur_forced'
            /\ resolved' = dialog.pvs
            /\ pending' = dialog.pvs]_vars
    /\ [][OutcomeStep /\ cur_forced =>
            \A i \in 1..Len(Delivered.status) :
                /\ Delivered.status[i][2] \in PvStatus
                /\ Delivered.status[i][1] \in disc =>
                       Delivered.status[i][2] = "access_err"]_vars

\* C6 witness: the outcome of a restore forced through the box, with one
\* item refused for its connection and the other written
C6_Witness ==
    /\ queue # <<>>
    /\ queue[1].forced /\ ~force
    /\ Statuses(queue[1].status) = {"access_err", "ok"}

\* C7: whenever a restore is in flight or the box of do_restore is open, a
\* state follows in which no restore is in flight, the box is closed and
\* both buttons are enabled, so that a new restore can be started
C7_BusyReleased ==
    (busy \/ dialog.open) ~>
        (~busy /\ ~dialog.open /\ restore_button /\ restore_all_button)

\* C7 witness: restore_done has enabled the buttons after an outcome
C7_Witness ==
    /\ restore_button /\ restore_all_button
    /\ ~busy /\ queue = <<>>
    /\ sts_info \in {"Restore done", "Restore error"}

\* C8: while a restore is in flight the busy guard of the GUI (the disabled
\* buttons) is set
C8_BusyCoversBatch ==
    busy => ~restore_button /\ ~restore_all_button

ErrorState(e) ==
    \/ "type_err" \in Statuses(e.status)
    \/ "access_err" \in Statuses(e.status) /\ ~e.forced

\* C10: restore_done classifies an outcome as an error exactly if an item
\* has type_error, or an item has access_error and the restore was unforced
C10_ErrorClass ==
    [][Len(queue') < Len(queue) => error' = ErrorState(Head(queue))]_vars

-----------------------------------------------------------------------------
\* Claims about the save-file registry

\* the labels carried by the files of the table
LabelsInUse ==
    UNION {file_list[f].meta_data.labels : f \in DOMAIN file_list}

\* C2: a label is listed in existing_labels exactly when at least one file
\* of file_list carries it
C2_LabelLedger == Listed(existing_labels) = LabelsInUse

\* C3: after a refresh, with nothing done to the directory or the table
\* since, a second refresh returns an empty changed-set and leaves the table
\* and the items as they are
C3_IdempotentReconcile ==
    quiet =>
        LET r == start_file_list_update(disk, file_list, tree,
                                        existing_labels)
        IN  /\ r.ret = Returned(<<>>)
            /\ r.fl = file_list
            /\ r.tr = tree

-----------------------------------------------------------------------------
\* Claims about the resolution of the item set

\* the stored items of the selected capture whose substituted name is in
\* the subset
InSubset(subset) ==
    {p \in file_list[TheSelected].pvs_list : macros_substitution(p) \in subset}

\* C11: Restore Filtered with a non-empty filtered list hands to the restore
\* exactly the stored items of the selected capture whose macro-substituted
\* name is in the filtered list, whatever the length of the list
C11_SubsetResolution ==
    [][start_restore_filtered /\ filtered_pvs # {} =>
          /\ last_status' = "ok" => resolved' = InSubset(filtered_pvs)
          /\ last_status' = "no_conn" => dialog'.pvs = InSubset(filtered_pvs)
      ]_vars

\* C12: a start issued while no restore is in flight, for a selected capture
\* without items or with a subset that resolves to no item, returns no_data,
\* leaves the orchestrator as it is (nothing dispatched, not in flight) and
\* the two Restore buttons are enabled when do_restore returns
C12_NoData ==
    [][\A pvs_list \in FilteredLists \cup {NoList} :
          /\ do_restore(pvs_list)
          /\ ~busy
          /\ Len(selected_files) = 1
          /\ TheSelected \in DOMAIN file_list
          /\ pvs_to_restore(file_list[TheSelected], pvs_list) = {}
          => /\ last_status' = "no_data"
             /\ UNCHANGED orch
             /\ restore_button'
             /\ restore_all_button'
      ]_vars

\* C12 witness: Restore was asked for a capture that stores no item and was
\* rejected with no_data
C12_Witness ==
    /\ last_status = "no_data"
    /\ Len(selected_files) = 1
    /\ TheSelected \in DOMAIN file_list
    /\ file_list[TheSelected].pvs_list = {}
    /\ ~busy
    /\ restore_button
    /\ restore_all_button

-----------------------------------------------------------------------------
\* Claims about the reconcile of the table with the directory

\* the reconcile of the current state: what start_file_list_update would
\* make of the table, the items and existing_labels, and what it returns
Reconciled == start_file_list_update(disk, file_list, tree, existing_labels)

\* the files of the table that are no longer in the directory
RemovedFiles == DOMAIN file_list \ DOMAIN disk

\* C13: a reconcile that completes leaves no file in the table that is no
\* longer in the directory; when one file was removed and nothing else
\* changed, each of its labels is listed once less than before
C13_RemovedReconciled ==
    ~Reconciled.ret.raised =>
        /\ \A f \in RemovedFiles : f \notin DOMAIN Reconciled.fl
        /\ \A f \in RemovedFiles :
              RemovedFiles = {f} /\ Reconciled.ret.files \subseteq {f} =>
                  \A l \in file_list[f].meta_data.labels :
                      Reconciled.el[l] = existing_labels[l] - 1

\* C14: after a reconcile that completes, the table entry of every file the
\* reconcile parsed (new, or in the table with another modification time)
\* holds the modification time the file has on disk
C14_ModifTimeStored ==
    ~Reconciled.ret.raised =>
        \A f \in Reconciled.ret.files :
            Reconciled.fl[f].modif_time = disk[f].modif_time

\* the items of files other than f
OtherItems(tr, f) == SelectSeq(tr, LAMBDA it : it.fn # f)

\* C15: with one corrupt file f in the directory, the reconcile completes
\* whenever it would complete without f, the table entries and the items of
\* all other files are what they would be without f, and f is reported with
\* its errors if it is one of the parsed files
C15_FailSoft ==
    \A f \in DOMAIN disk :
        disk[f].err # {} =>
            LET without == start_file_list_update(DiskWithout(disk, f),
                               file_list, tree, existing_labels)
            IN  ~without.ret.raised =>
                    /\ ~Reconciled.ret.raised
                    /\ DOMAIN Reconciled.fl \ {f} = DOMAIN without.fl \ {f}
                    /\ \A g \in DOMAIN without.fl \ {f} :
                          Reconciled.fl[g] = without.fl[g]
                    /\ OtherItems(Reconciled.tr, f) = OtherItems(without.tr, f)
                    /\ f \in Range(get_save_files(disk, file_list)) =>
                          f \in Reconciled.err

\* the files of the directory that the glob of get_save_files finds and
\* that belong to the request file by their header and by their name
MatchingFiles ==
    {f \in DOMAIN disk :
        /\ GlobReq(f)
        /\ disk[f].err = {}
        /\ disk[f].meta_data.req_file_name = req_file_name
        /\ StartsWithReq(f)}

\* C16: after one reconcile that completes, every file of the directory
\* that matches the suffix and the request file is in the table, however
\* many of them are new
C16_FullDirectory ==
    ~Reconciled.ret.raised => MatchingFiles \subseteq DOMAIN Reconciled.fl

\* the names whose table entry the reconcile of the current state adds,
\* changes or removes
ChangedEntries ==
    {f \in DOMAIN file_list \cup DOMAIN Reconciled.fl :
        \/ f \notin DOMAIN file_list
        \/ f \notin DOMAIN Reconciled.fl
        \/ Reconciled.fl[f] # file_list[f]}

\* C17: the changed-set a reconcile returns holds the names whose table
\* entry it added, modified or removed, and no other name
C17_ChangedSetExact ==
    ~Reconciled.ret.raised => Reconciled.ret.files = ChangedEntries

\* the candidates of the reconcile of the current state: the files the glob
\* of get_save_files finds that are not in the table
Candidates == {f \in DOMAIN disk \ DOMAIN file_list : GlobReq(f)}

\* C18: a candidate whose header names a request file is in the table after
\* the reconcile if and only if that name is the current request file name,
\* whatever its file name starts with
C18_RequestAssociation ==
    ~Reconciled.ret.raised =>
        \A f \in Candidates :
            parse_from_save_file(disk, f).meta_data.req_file_name # None =>
                (f \in DOMAIN Reconciled.fl <=>
                    parse_from_save_file(disk, f).meta_data.req_file_name
                        = req_file_name)

-----------------------------------------------------------------------------
\* Claims about the filter

\* the items as filter_file_list_selector leaves them when it is applied to
\* the list of the current state with the filter of the current state
Filtered == filter_file_list_selector(file_filter, tree, 1)

\* C19: an item the filter leaves visible has a comment that contains the
\* comment filter, unless the comment filter is empty; whatever the name
\* filter is
C19_CommentFilter ==
    ~Filtered.raised =>
        \A i \in 1..Len(tree) :
            ~Filtered.tr[i].hidden =>
                \/ file_filter.comment = ""
                \/ In(file_filter.comment, tree[i].comment)

\* the item passes the three conditions of the filter
Passes(flt, it) ==
    /\ flt.name = "" \/ In(flt.name, it.fn)
    /\ flt.comment = "" \/ In(flt.comment, it.comment)
    /\ flt.keys = {} \/ flt.keys \subseteq it.labels

\* C20: once the filter has been applied, every item that passes the name,
\* the comment and the label condition is visible
C20_FilterComplete ==
    \A i \in 1..Len(tree) :
        Passes(file_filter, tree[i]) => ~Filtered.tr[i].hidden

\* C21: once the filter has been applied, the name of every visible item
\* contains the name filter and its labels include every required label
C21_NameLabelSound ==
    \A i \in 1..Len(tree) :
        ~Filtered.tr[i].hidden =>
            /\ file_filter.name = "" \/ In(file_filter.name, tree[i].fn)
            /\ file_filter.keys \subseteq tree[i].labels

\* the names of the visible items
Visible(tr) == {tr[i].fn : i \in {j \in 1..Len(tr) : ~tr[j].hidden}}

\* the items with none of them hidden, as before any filter was applied
Unhidden(tr) == [i \in 1..Len(tr) |-> [tr[i] EXCEPT !.hidden = FALSE]]

\* C22: the files the filter leaves visible are files of the table; applying
\* the filter a second time changes nothing; and the visible files are the
\* same whatever was hidden before the filter was applied
C22_PureSubset ==
    /\ Visible(Filtered.tr) \subseteq DOMAIN file_list
    /\ Visible(filter_file_list_selector(file_filter, Filtered.tr, 1).tr)
           = Visible(Filtered.tr)
    /\ Visible(filter_file_list_selector(file_filter, Unhidden(tree), 1).tr)
           = Visible(Filtered.tr)

\* C23: a filter update leaves the table (entries, meta data, modification
\* times), existing_labels, the selection and every item apart from its
\* hidden state as they are, and reads nothing of the directory: what the
\* last refresh returned stays as it is
C23_FilterLeavesRegistry ==
    [][\A flt \in Filters :
          update_filter(flt) =>
              /\ UNCHANGED <<file_list, existing_labels, selected_files,
                             updated_files, directory>>
              /\ Unhidden(tree') = Unhidden(tree)
      ]_vars

\* C23 witness: with the list refreshed and a file selected, a filter has
\* been applied that hides the selected file and leaves another visible
C23_Witness ==
    /\ file_filter # NoFilter
    /\ DOMAIN file_list # {}
    /\ \E i \in 1..Len(tree) : tree[i].hidden /\ tree[i].selected
    /\ \E i \in 1..Len(tree) : ~tree[i].hidden

\* the files of the table whose modification time on disk is the stored one
UnchangedFiles ==
    {f \in DOMAIN file_list \cap DOMAIN disk :
        file_list[f].modif_time = disk[f].modif_time}

-----------------------------------------------------------------------------
\* Claims about existing_labels

\* the labels the reconcile of the current state takes off existing_labels
LabelsRemoved == Listed(existing_labels) \ Listed(Reconciled.el)

\* C25: a label that a reconcile takes off existing_labels is carried by no
\* file of the table as the reconcile leaves it, the modified file with its
\* new labels included
C25_RemovedOnlyUnused ==
    \A l \in LabelsRemoved :
        \A f \in DOMAIN Reconciled.fl : l \notin Reconciled.fl[f].meta_data.labels

\* C25 witness: the reconcile of this state takes a label off
\* existing_labels that a rewritten file has lost, and keeps a label the
\* rewritten file has lost as well but another file still carries
C25_Witness ==
    /\ LabelsRemoved # {}
    /\ ~Reconciled.ret.raised
    /\ \E f \in DOMAIN file_list \cap DOMAIN Reconciled.fl :
          \E l \in file_list[f].meta_data.labels
                     \ Reconciled.fl[f].meta_data.labels :
              l \in Listed(Reconciled.el)

\* update_file_list_selector as the reconcile of the current state runs it
ReconcileUpdate ==
    update_file_list_selector(
        [fl |-> file_list, tr |-> tree, el |-> existing_labels,
         raised |-> FALSE],
        disk, get_save_files(disk, file_list))

\* C26: no reconcile calls existing_labels.remove for a label that is not
\* in existing_labels, and no label is listed a negative number of times
C26_NoUnderflow ==
    /\ ~ReconcileUpdate.raised
    /\ \A l \in Labels : existing_labels[l] >= 0

-----------------------------------------------------------------------------
\* Claims about the handlers of the file list

\* a step in which start_file_list_update ran: update_files, the Refresh
\* button, or the clear_update_files that ends a meta-data edit whose file
\* was rewritten
ReconcileStep ==
    \/ update_files
    \/ start_refresh
    \/ /\ Len(selected_files) = 1
       /\ selected_files[1] \in DOMAIN disk
       /\ \E e \in Edits : evt_update_file_metadata(TRUE, e.comment, e.labels)

\* C27: the table (its entries, their meta data and labels) changes only in
\* a step in which the reconcile runs
C27_OnlyReconcileMutates ==
    [][file_list' # file_list => ReconcileStep]_vars

-----------------------------------------------------------------------------
\* Claims about the Restore buttons

\* C28: Restore Filtered with an empty filtered list starts no restore: the
\* orchestrator is left as it is, here for the request file that defines
\* no item
C28_EmptyFilteredNoStart ==
    [][filtered_pvs = {} /\ start_restore_filtered_on({}) =>
          UNCHANGED orch]_vars

\* C29: while a restore is in flight (accepted, its outcome not yet
\* delivered to restore_done) disabled Restore buttons stay disabled,
\* whatever step is taken
C29_ButtonsStayDisabled ==
    [][/\ busy \/ queue # <<>>
       /\ busy' \/ queue' # <<>>
       /\ ~restore_button /\ ~restore_all_button
       => ~restore_button' /\ ~restore_all_button']_vars

\* C30: the Restore buttons are enabled only if exactly one file is selected
C30_EnabledOnlyOneSelected ==
    restore_button \/ restore_all_button => Len(selected_files) = 1

-----------------------------------------------------------------------------
\* Claims about the displayed list and the table

\* C31: every file name the list shows has an entry in the table
C31_ShownInTable ==
    \A i \in 1..Len(tree) : tree[i].fn \in DOMAIN file_list

\* C32: when a refresh has returned, every item of the list, those the
\* refresh has added included, is hidden exactly if the filter in force
\* hides it
C32_RefreshAppliesFilter ==
    ~Reconciled.ret.raised =>
        \A i \in 1..Len(Reconciled.tr) :
            LET r == filter_item(file_filter, Reconciled.tr[i])
            IN  ~r.raised => Reconciled.tr[i].hidden = r.hidden

\* every file of the request file is in the table with the modification
\* time it has on disk, and a refresh would return no changed file
Converged ==
    /\ \A f \in MatchingFiles :
          /\ f \in DOMAIN file_list
          /\ file_list[f].modif_time = disk[f].modif_time
    /\ Reconciled.ret.files = {}

\* C33: repeated incremental refreshes of a directory that no longer
\* changes end in a converged state: a state that update_files leaves as it
\* is, so that every further refresh stays in it, is converged
C33_Converges == ~RefreshChanges => Converged

\* C34: after "Delete selected files", answered Yes, each selected file that
\* os.remove could remove is gone from the directory, from the table and
\* from the list; each selected file that os.remove failed on (it is not in
\* the directory) is in the table and in the list as it was before; whatever
\* happened to the other selected files
C34_DeleteEach ==
    [][evt_delete_files("Yes") =>
         \A f \in Range(selected_files) :
            IF f \in DOMAIN disk
            THEN /\ f \notin DOMAIN disk'
                 /\ f \notin DOMAIN file_list'
                 /\ \A i \in 1..Len(tree') : tree'[i].fn # f
            ELSE /\ f \in DOMAIN file_list' <=> f \in DOMAIN file_list
                 /\ \E i \in 1..Len(tree') : tree'[i].fn = f]_vars

\* C35: existing_labels, the list of labels offered as suggestions, holds
\* no label twice
C35_NoDuplicateLabel ==
    \A l \in Labels : existing_labels[l] <= 1

-----------------------------------------------------------------------------
\* Claims about the forced retry

\* C36: when the user declines the forced retry the orchestrator is left as
\* it is, with no restore in flight and no outcome waiting, and both
\* buttons are enabled; when the user accepts, no restore was in flight and
\* one forced restore of the item set of the rejected start is in flight
\* with every item of it dispatched
C36_DeclineOrForce ==
    /\ [][do_restore_reply("No") =>
            /\ UNCHANGED orch
            /\ ~busy' /\ pending' = {} /\ queue' = <<>>
            /\ restore_button' /\ restore_all_button']_vars
    /\ [][do_restore_reply("Yes") =>
            /\ ~busy /\ queue' = <<>>
            /\ busy' /\ cur_forced'
            /\ resolved' = dialog.pvs /\ pending' = dialog.pvs
            /\ per_item' = <<>>]_vars

\* C36 witness: the user has declined the forced retry; nothing is in flight
\* and the buttons are enabled
C36_Witness ==
    /\ last_status = "no_conn" /\ ~dialog.open /\ sts_info = ""
    /\ ~busy /\ queue = <<>>
    /\ restore_button /\ restore_all_button

-----------------------------------------------------------------------------
\* Claims about the widgets of utils.py

\* C37: the selected keywords hold no keyword twice and no keyword that is
\* empty or only white space; each selected keyword has exactly one keyword
\* widget in the layout, the one keywordWidgets holds for it; and in
\* defaults-only mode a selected keyword that is no default label was added
\* with force=True
C37_KeywordSelection ==
    /\ Cardinality(Range(selectedKeywords)) = Len(selectedKeywords)
    /\ \A k \in Range(selectedKeywords) :
          /\ strip(k) # ""
          /\ k \in keywordWidgets
          /\ Cardinality({i \in 1..Len(layout) : layout[i] = k}) = 1
          /\ defaults_only /\ k \notin default_labels => k \in forced_keywords

\* C37 witness: in defaults-only mode a default label and a forced keyword
\* are selected, after a keyword has been removed
C37_Witness ==
    /\ defaults_only
    /\ Range(selectedKeywords) = {"shift1", "night"}
    /\ Len(layout) = 2
    /\ "shift2" \in keywordWidgets

\* C38: apply_config with a macro text that cannot be parsed emits nothing
\* and leaves the settings in force as they are.  Otherwise it emits one
\* config, which holds "macros", "save_dir", "force" exactly for the
\* settings whose entered valid value differs from the one in force, with
\* that value; a path that is no directory is not emitted and the input
\* goes back to the directory in force; and Ok and Apply end disabled
C38_ApplyChangedOnly ==
    [][apply_config =>
         LET parsed == parse_macros(macro_input)
             cfg == new_config'[1]
         IN  IF parsed.raised
             THEN /\ new_config' = <<>>
                  /\ UNCHANGED <<curr_macros, curr_save_dir, curr_forced>>
             ELSE /\ Len(new_config') = 1
                  /\ "macros" \in DOMAIN cfg <=> parsed.macros # curr_macros
                  /\ "macros" \in DOMAIN cfg => cfg["macros"] = parsed.macros
                  /\ "save_dir" \in DOMAIN cfg <=>
                         /\ save_dir_input # curr_save_dir
                         /\ isdir(save_dir_input)
                  /\ "save_dir" \in DOMAIN cfg =>
                         cfg["save_dir"] = save_dir_input
                  /\ ~isdir(save_dir_input) =>
                         /\ save_dir_input' = curr_save_dir
                         /\ curr_save_dir' = curr_save_dir
                  /\ "force" \in DOMAIN cfg <=> force_input # curr_forced
                  /\ "force" \in DOMAIN cfg => cfg["force"] = force_input
                  /\ curr_macros' = parsed.macros
                  /\ curr_forced' = force_input
                  /\ curr_save_dir' = save_dir_input'
                  /\ ~ok_button' /\ ~apply_button']_vars

\* C38 witness: an apply with a path that is no directory has emitted the
\* changed macros and force mode without the directory, and the input shows
\* the directory in force again
C38_Witness ==
    /\ warning = "save_dir"
    /\ Len(new_config) = 1
    /\ DOMAIN new_config[1] = {"macros", "force"}
    /\ save_dir_input = curr_save_dir
    /\ ~ok_button /\ ~apply_button

=============================================================================
